---- MODULE Spec2Model ----
(***************************************************************************)
(* Model of src/src/filesvr.rs: the Service Factory (FileServiceMaker),    *)
(* the Dispatcher (FileService) with its asynchronous adapter (serv, run   *)
(* through Service::call) and the pollable adapter (FileServiceFuture).    *)
(*                                                                         *)
(* The Resolution Engine (RequestResolve) and the response-construction    *)
(* collaborator (ResponseBuilder) live outside filesvr.rs.  What they      *)
(* return is an input of the poll steps; how a resolution attempt keeps    *)
(* its progress and its wake-up registration is modelled by NewAttempt,    *)
(* ResolvePoll and WakeArranged.                                           *)
(***************************************************************************)
EXTENDS Integers, Sequences, FiniteSets, TLC

(* -------- bounds -------- *)
MaxMakes == 1      \* calls of FileServiceMaker::call
MaxUnits == 2      \* futures of serv created by FileService::call
MaxSuspend == 1    \* times one resolution attempt suspends before it yields
MaxPolls == 2      \* advance calls on one FileServiceFuture

(* -------- input domains -------- *)
Roots == {"/srv", "/var/www"}
Conns == {"conn1", "conn2"}
Requests == {[method |-> "GET", path |-> "/file.txt"],
             [method |-> "DELETE", path |-> "/"]}
Handles == {"h1", "h2"}

Found(f) == [tag |-> "Found", f |-> f]
NonFoundTags == {"IsDirectory", "MethodNotMatched", "NotFound", "PermissionDenied"}

\* io::Error values the Resolution Engine may fail with
IoErrors == {[kind |-> "NotFound", msg |-> "stat failed"],
             [kind |-> "TimedOut", msg |-> "read timed out"]}

\* Result<Resolved, io::Error> of one resolution
ResolveOk(r) == [ok |-> TRUE, val |-> r]
ResolveErr(e) == [ok |-> FALSE, err |-> e]
EngineResults == {ResolveOk([tag |-> t]) : t \in NonFoundTags}
                 \cup {ResolveOk(Found(f)) : f \in Handles}
                 \cup {ResolveErr(e) : e \in IoErrors}

\* Result<Response<Body>, http::Error> of ResponseBuilder::build
BuildErrMsgs == {"invalid header value", "invalid status code"}
BuildOk(resp) == [ok |-> TRUE, resp |-> resp]
BuildErr(m) == [ok |-> FALSE, cerr |-> m]
BuildResults(f) == {BuildOk([status |-> s, body |-> f]) : s \in {200, 206}}
                   \cup {BuildErr(m) : m \in BuildErrMsgs}
AllBuildResults == UNION {BuildResults(f) : f \in Handles}

\* the inputs of the concurrent specification: one of each class
ConcEngineResults == {ResolveOk([tag |-> "NotFound"]), ResolveOk(Found("h1")),
                      ResolveErr([kind |-> "TimedOut", msg |-> "read timed out"])}
ConcBuildResults == {BuildOk([status |-> 200, body |-> "h1"])}

VARIABLES
    maker,      \* the FileServiceMaker
    ctorRoot,   \* the root given to FileServiceMaker::new
    makerFuts,  \* the futures returned by FileServiceMaker::call
    units,      \* the dispatch units: serv futures and FileServiceFutures
    ready       \* what the last poll_ready returned, and whose it was

vars == <<maker, ctorRoot, makerFuts, units, ready>>

(* -------- Poll values -------- *)
NotPolled == [tag |-> "None"]
Pending == [tag |-> "Pending"]
ReadyOk(v) == [tag |-> "Ok", resp |-> v]
ReadyErr(e) == [tag |-> "Err", err |-> e]

IsFinal(ret) == ret.tag \in {"Ok", "Err"}

(* -------- Resolution Engine: one resolution attempt -------- *)
\* RequestResolve::new: an attempt that has made no progress and has
\* registered no wake-up
NewAttempt == [progress |-> 0, waker |-> FALSE]

\* One advance of a resolution attempt whose resolution suspends `need`
\* times: while it still has to suspend it keeps the progress made, registers
\* the caller's waker with its in-flight operation and signals "not yet";
\* after that it yields `eng`.
ResolvePoll(att, need, eng) ==
    IF att.progress < need
    THEN [pending |-> TRUE,
          att |-> [progress |-> att.progress + 1, waker |-> TRUE]]
    ELSE [pending |-> FALSE, att |-> att, res |-> eng]

\* The in-flight state of an attempt, its wake-up registration included, is
\* owned by the attempt and released when the attempt is dropped: a wake-up
\* is arranged exactly while a suspended attempt is alive.
WakeArranged(slot) == Len(slot) = 1 /\ slot[1].waker

(* -------- Response Mapper, as written in each adapter -------- *)
\* Response::builder().status(s).body(Body::Empty)
EmptyResponse(s) == BuildOk([status |-> s, body |-> "Empty"])

\* ServMatch with the Found arm answering 200 with an empty body instead of
\* handing the file to the builder's response
ServMatch_FoundEmpty(resolved, b) ==
    CASE resolved.tag = "IsDirectory" -> EmptyResponse(403)
      [] resolved.tag = "MethodNotMatched" -> EmptyResponse(400)
      [] resolved.tag = "NotFound" -> EmptyResponse(404)
      [] resolved.tag = "PermissionDenied" -> EmptyResponse(403)
      [] resolved.tag = "Found" -> EmptyResponse(200)

\* serv, lines 45-59; b is what ResponseBuilder::new().build(f) returned
ServMatch(resolved, b) ==
    CASE resolved.tag = "IsDirectory" -> EmptyResponse(403)
      [] resolved.tag = "MethodNotMatched" -> EmptyResponse(400)
      [] resolved.tag = "NotFound" -> EmptyResponse(404)
      [] resolved.tag = "PermissionDenied" -> EmptyResponse(403)
      [] resolved.tag = "Found" -> b

\* ServFinish with a fixed message in place of the builder's error
ServFinish_FixedMessage(resp) ==
    IF resp.ok
    THEN ReadyOk(resp.resp)
    ELSE ReadyErr([kind |-> "Other", msg |-> "build response failed"])

\* serv, lines 60-67
ServFinish(resp) ==
    IF resp.ok
    THEN ReadyOk(resp.resp)
    ELSE ReadyErr([kind |-> "Other", msg |-> resp.cerr])

\* serv, line 44: the ? operator on a failed resolution
ServTry(e) == ReadyErr(e)

\* PollMatch with PermissionDenied answered as 404
PollMatch_PermissionAs404(resolved, b) ==
    CASE resolved.tag = "IsDirectory" -> EmptyResponse(403)
      [] resolved.tag = "MethodNotMatched" -> EmptyResponse(400)
      [] resolved.tag = "NotFound" -> EmptyResponse(404)
      [] resolved.tag = "PermissionDenied" -> EmptyResponse(404)
      [] resolved.tag = "Found" -> b

\* poll, lines 121-135
PollMatch(resolved, b) ==
    CASE resolved.tag = "IsDirectory" -> EmptyResponse(403)
      [] resolved.tag = "MethodNotMatched" -> EmptyResponse(400)
      [] resolved.tag = "NotFound" -> EmptyResponse(404)
      [] resolved.tag = "PermissionDenied" -> EmptyResponse(403)
      [] resolved.tag = "Found" -> b

\* poll, lines 136-143
PollFinish(resp) ==
    IF resp.ok
    THEN ReadyOk(resp.resp)
    ELSE ReadyErr([kind |-> "Other", msg |-> resp.cerr])

\* PollResolveErr wrapping the engine's error like a builder failure
PollResolveErr_Wrapped(e) == ReadyErr([kind |-> "Other", msg |-> e.msg])

\* poll, lines 116-118
PollResolveErr(e) == ReadyErr(e)

\* BuiltSlot with the builder called for every successful resolution
BuiltSlot_Eager(eng, b) == IF eng.ok THEN <<b>> ELSE <<>>

\* what one advance records about its collaborators: the engine's yield,
\* the builder's return (only when build was called), whether the match ran
BuiltSlot(eng, b) == IF eng.ok /\ eng.val.tag = "Found" THEN <<b>> ELSE <<>>

(* -------- Service Factory -------- *)
\* FileServiceMaker::new
FileServiceMakerNew(root) == [local_root |-> root]

\* FileService::new
FileServiceNew(root) == [local_root |-> root]

\* Poll::Ready(Ok(()))
ReadyUnit == [tag |-> "Ok"]

\* FileServiceMaker::poll_ready, lines 167-169: the factory after the call
\* and the value returned
FileServiceMakerPollReady(m) == [self |-> m, ret |-> ReadyUnit]

\* FileServicePollReady answering Pending, as a service applying
\* back-pressure would
FileServicePollReady_Busy(svc) == [self |-> svc, ret |-> Pending]

\* FileService::poll_ready, lines 85-87: the Dispatcher after the call and
\* the value returned
FileServicePollReady(svc) == [self |-> svc, ret |-> ReadyUnit]

\* FileServiceMaker::call: clones the root into an async block; the
\* connection context is discarded
FileServiceMakerCall(m, ctx) ==
    [local_root |-> m.local_root, state |-> "Unresumed", ret |-> NotPolled]

\* MakerFutPoll yielding to the executor before it completes
MakerFutPoll_YieldsFirst(f) == [f EXCEPT !.ret = Pending]

\* one advance of the async block of FileServiceMaker::call
MakerFutPoll(f) ==
    [f EXCEPT !.state = "Returned",
              !.ret = [tag |-> "Ok", svc |-> FileServiceNew(f.local_root)]]

(* -------- Dispatcher, asynchronous adapter -------- *)
\* FileServiceCall taking the request's path for the root
FileServiceCall_RootFromPath(svc, request, need) ==
    [kind |-> "serv", local_root |-> request.path, request |-> request,
     need |-> need, state |-> "Unresumed", attempt |-> <<>>,
     ret |-> NotPolled, polls |-> 0,
     resolved |-> <<>>, built |-> <<>>, mapped |-> FALSE,
     started |-> 0, builds |-> 0]

\* FileService::call: Box::pin(self.clone().serv(request)), not yet advanced
FileServiceCall(svc, request, need) ==
    [kind |-> "serv", local_root |-> svc.local_root, request |-> request,
     need |-> need, state |-> "Unresumed", attempt |-> <<>>,
     ret |-> NotPolled, polls |-> 0,
     resolved |-> <<>>, built |-> <<>>, mapped |-> FALSE,
     started |-> 0, builds |-> 0]

\* CallUnits keeping the current request in one slot shared by all calls
CallUnits_SharedRequest(us, svc, request, need) ==
    Append([k \in DOMAIN us |-> [us[k] EXCEPT !.request = request]],
           [kind |-> "serv", local_root |-> svc.local_root,
            request |-> request, need |-> need, state |-> "Unresumed",
            attempt |-> <<>>, ret |-> NotPolled, polls |-> 0,
            resolved |-> <<>>, built |-> <<>>, mapped |-> FALSE,
     started |-> 0, builds |-> 0])

\* the new unit is a new boxed future; the units in flight are not touched
CallUnits(us, svc, request, need) ==
    Append(us, FileServiceCall(svc, request, need))

\* ServPoll looking at the request's method again when it maps the outcome
ServPoll_ByMethod(u, eng, b) ==
    LET first == u.state = "Unresumed"
        att == IF first THEN NewAttempt ELSE u.attempt[1]
        began == u.started + (IF first THEN 1 ELSE 0)
        step == ResolvePoll(att, u.need, eng)
    IN  IF step.pending
        THEN [u EXCEPT !.state = "Suspend0", !.attempt = <<step.att>>,
                       !.ret = Pending, !.polls = @ + 1,
                       !.started = began]
        ELSE IF ~step.res.ok
        THEN [u EXCEPT !.state = "Returned", !.attempt = <<>>,
                       !.ret = ServTry(step.res.err), !.polls = @ + 1,
                       !.resolved = <<step.res>>,
                       !.started = began]
        ELSE [u EXCEPT !.state = "Returned", !.attempt = <<>>,
                       !.ret = IF u.request.method = "DELETE"
                                  /\ step.res.val.tag # "Found"
                               THEN ReadyOk([status |-> 405, body |-> "Empty"])
                               ELSE ServFinish(ServMatch(step.res.val, b)),
                       !.polls = @ + 1,
                       !.resolved = <<step.res>>,
                       !.built = BuiltSlot(step.res, b),
                       !.mapped = TRUE,
                       !.started = began,
                       !.builds = @ + Len(BuiltSlot(step.res, b))]

\* one advance of the future of serv: the attempt is built on the first
\* advance and kept across the await.  started counts the resolution
\* attempts built for the unit, builds the calls of ResponseBuilder::build.
ServPoll(u, eng, b) ==
    LET first == u.state = "Unresumed"
        att == IF first THEN NewAttempt ELSE u.attempt[1]
        began == u.started + (IF first THEN 1 ELSE 0)
        step == ResolvePoll(att, u.need, eng)
    IN  IF step.pending
        THEN [u EXCEPT !.state = "Suspend0", !.attempt = <<step.att>>,
                       !.ret = Pending, !.polls = @ + 1,
                       !.started = began]
        ELSE IF ~step.res.ok
        THEN [u EXCEPT !.state = "Returned", !.attempt = <<>>,
                       !.ret = ServTry(step.res.err), !.polls = @ + 1,
                       !.resolved = <<step.res>>,
                       !.started = began]
        ELSE [u EXCEPT !.state = "Returned", !.attempt = <<>>,
                       !.ret = ServFinish(ServMatch(step.res.val, b)),
                       !.polls = @ + 1,
                       !.resolved = <<step.res>>,
                       !.built = BuiltSlot(step.res, b),
                       !.mapped = TRUE,
                       !.started = began,
                       !.builds = @ + Len(BuiltSlot(step.res, b))]

(* -------- Dispatcher, pollable adapter -------- *)
\* FileServiceFuture::new; the struct holds request and local_root only
FileServiceFutureNew(local_root, request, need) ==
    [kind |-> "future", local_root |-> local_root, request |-> request,
     need |-> need, state |-> "NoState", attempt |-> <<>>,
     ret |-> NotPolled, polls |-> 0,
     resolved |-> <<>>, built |-> <<>>, mapped |-> FALSE,
     started |-> 0, builds |-> 0]

\* PollResolvePending turning "not yet" into an error result
PollResolvePending_WouldBlock ==
    ReadyErr([kind |-> "WouldBlock", msg |-> "resolution pending"])

\* poll, line 119
PollResolvePending == Pending

\* LocalDropped with the attempt stored in the unit instead
LocalDropped_Kept(att) == <<att>>

\* poll, lines 113 and 119: req_resolve is a local of poll, so what the unit
\* holds of the attempt once poll has returned is nothing
LocalDropped(att) == <<>>

\* FileServiceFuturePoll of a unit that remembers it is done: advanced
\* after its final result it returns that result again and resolves nothing
FileServiceFuturePoll_Fused(u, eng, b) ==
    LET req_resolve == NewAttempt
        step == ResolvePoll(req_resolve, u.need, eng)
    IN  IF IsFinal(u.ret)
        THEN [u EXCEPT !.polls = @ + 1]
        ELSE IF step.pending
        THEN [u EXCEPT !.attempt = <<>>, !.ret = Pending,
                       !.polls = @ + 1,
                       !.resolved = <<>>, !.built = <<>>, !.mapped = FALSE,
                       !.started = @ + 1]
        ELSE IF ~step.res.ok
        THEN [u EXCEPT !.attempt = <<>>,
                       !.ret = ReadyErr(step.res.err), !.polls = @ + 1,
                       !.resolved = <<step.res>>, !.built = <<>>,
                       !.mapped = FALSE,
                       !.started = @ + 1]
        ELSE [u EXCEPT !.attempt = <<>>,
                       !.ret = PollFinish(PollMatch(step.res.val, b)),
                       !.polls = @ + 1,
                       !.resolved = <<step.res>>,
                       !.built = BuiltSlot(step.res, b),
                       !.mapped = TRUE,
                       !.started = @ + 1,
                       !.builds = @ + Len(BuiltSlot(step.res, b))]

\* FileServiceFuture::poll: req_resolve is a local built on every advance
\* and dropped when poll returns
FileServiceFuturePoll(u, eng, b) ==
    LET req_resolve == NewAttempt
        step == ResolvePoll(req_resolve, u.need, eng)
    IN  IF step.pending
        THEN [u EXCEPT !.attempt = LocalDropped(step.att),
                       !.ret = PollResolvePending,
                       !.polls = @ + 1,
                       !.resolved = <<>>, !.built = <<>>, !.mapped = FALSE,
                       !.started = @ + 1]
        ELSE IF ~step.res.ok
        THEN [u EXCEPT !.attempt = <<>>,
                       !.ret = PollResolveErr(step.res.err), !.polls = @ + 1,
                       !.resolved = <<step.res>>, !.built = <<>>,
                       !.mapped = FALSE,
                       !.started = @ + 1]
        ELSE [u EXCEPT !.attempt = <<>>,
                       !.ret = PollFinish(PollMatch(step.res.val, b)),
                       !.polls = @ + 1,
                       !.resolved = <<step.res>>,
                       !.built = BuiltSlot(step.res, b),
                       !.mapped = TRUE,
                       !.started = @ + 1,
                       !.builds = @ + Len(BuiltSlot(step.res, b))]

(* -------- state machine -------- *)
Init ==
    /\ ctorRoot \in Roots
    /\ maker = FileServiceMakerNew(ctorRoot)
    /\ makerFuts = <<>>
    /\ units = <<>>
    /\ ready = [of |-> "none", ret |-> NotPolled]

\* the Dispatchers the factory has yielded so far
Dispatchers == {makerFuts[i].ret.svc : i \in {k \in DOMAIN makerFuts : makerFuts[k].state = "Returned"}}

\* the builder returns for the handle it is given
BuildChoices(eng, builds) ==
    IF eng.ok /\ eng.val.tag = "Found"
    THEN builds \cap BuildResults(eng.val.f)
    ELSE builds

MakerCall(ctx) ==
    /\ makerFuts' = Append(makerFuts, FileServiceMakerCall(maker, ctx))
    /\ UNCHANGED <<maker, ctorRoot, units, ready>>

MakerPoll(i) ==
    /\ makerFuts[i].state = "Unresumed"
    /\ makerFuts' = [makerFuts EXCEPT ![i] = MakerFutPoll(makerFuts[i])]
    /\ UNCHANGED <<maker, ctorRoot, units, ready>>

MakerPollReady ==
    LET r == FileServiceMakerPollReady(maker)
    IN  /\ maker' = r.self
        /\ ready' = [of |-> "FileServiceMaker", ret |-> r.ret]
        /\ UNCHANGED <<ctorRoot, makerFuts, units>>

\* poll_ready on the Dispatcher that the i-th factory future yielded
ServicePollReady(i) ==
    /\ makerFuts[i].state = "Returned"
    /\ LET r == FileServicePollReady(makerFuts[i].ret.svc)
       IN  /\ makerFuts' = [makerFuts EXCEPT ![i].ret.svc = r.self]
           /\ ready' = [of |-> "FileService", ret |-> r.ret]
    /\ UNCHANGED <<maker, ctorRoot, units>>

Call(svc, request, need) ==
    /\ units' = CallUnits(units, svc, request, need)
    /\ UNCHANGED <<maker, ctorRoot, makerFuts, ready>>

FutureNew(svc, request, need) ==
    /\ units' = Append(units, FileServiceFutureNew(svc.local_root, request, need))
    /\ UNCHANGED <<maker, ctorRoot, makerFuts, ready>>

\* the executor advances the future of serv; a completed async fn is not
\* advanced again
ServAdvance(i, eng, b) ==
    /\ units[i].kind = "serv"
    /\ units[i].state # "Returned"
    /\ units' = [units EXCEPT ![i] = ServPoll(units[i], eng, b)]
    /\ UNCHANGED <<maker, ctorRoot, makerFuts, ready>>

\* the executor advances a FileServiceFuture that has not yet returned a
\* final result
FutureAdvance(i, eng, b) ==
    /\ units[i].kind = "future"
    /\ ~IsFinal(units[i].ret)
    /\ units[i].polls < MaxPolls
    /\ units' = [units EXCEPT ![i] = FileServiceFuturePoll(units[i], eng, b)]
    /\ UNCHANGED <<maker, ctorRoot, makerFuts, ready>>

\* a caller advances a FileServiceFuture again after its final result
FutureAdvanceAgain(i, eng, b) ==
    /\ units[i].kind = "future"
    /\ IsFinal(units[i].ret)
    /\ units[i].polls < MaxPolls
    /\ units' = [units EXCEPT ![i] = FileServiceFuturePoll(units[i], eng, b)]
    /\ UNCHANGED <<maker, ctorRoot, makerFuts, ready>>

\* the executor drops a unit, finished or not
Cancel(i) ==
    /\ units' = SubSeq(units, 1, i - 1) \o SubSeq(units, i + 1, Len(units))
    /\ UNCHANGED <<maker, ctorRoot, makerFuts, ready>>

\* the same root path and request handed to both adapters
Both(svc, request, need) ==
    /\ units' = <<FileServiceCall(svc, request, need),
                  FileServiceFutureNew(svc.local_root, request, need)>>
    /\ UNCHANGED <<maker, ctorRoot, makerFuts, ready>>

\* a unit of either adapter for a Dispatcher built by FileService::new(root)
DirectUnit(root, request, need, kind) ==
    IF kind = "serv"
    THEN FileServiceCall(FileServiceNew(root), request, need)
    ELSE FileServiceFutureNew(root, request, need)

\* two dispatches, each with its own root path, request and adapter
Two(r1, q1, n1, k1, r2, q2, n2, k2) ==
    /\ units = <<>>
    /\ units' = <<DirectUnit(r1, q1, n1, k1), DirectUnit(r2, q2, n2, k2)>>
    /\ UNCHANGED <<maker, ctorRoot, makerFuts, ready>>

\* The server: the factory is called per connection and its Dispatchers are
\* called per request, so that several futures of serv are in flight at
\* once.  (Nothing in filesvr.rs calls FileServiceFuture::new.)
Next ==
    \/ \E ctx \in Conns : Len(makerFuts) < MaxMakes /\ MakerCall(ctx)
    \/ \E i \in DOMAIN makerFuts : MakerPoll(i)
    \/ \E svc \in Dispatchers, request \in Requests, need \in 0..MaxSuspend :
          Len(units) < MaxUnits /\ Call(svc, request, need)
    \/ \E i \in DOMAIN units, eng \in ConcEngineResults :
          \E b \in BuildChoices(eng, ConcBuildResults) : ServAdvance(i, eng, b)
    \/ MakerPollReady
    \/ \E i \in DOMAIN makerFuts : ServicePollReady(i)

Spec == Init /\ [][Next]_vars

\* One dispatch through either adapter, over every resolution outcome and
\* every builder return.
NextMap ==
    \/ \E ctx \in Conns : makerFuts = <<>> /\ MakerCall(ctx)
    \/ \E i \in DOMAIN makerFuts : MakerPoll(i)
    \/ \E svc \in Dispatchers, request \in Requests, need \in 0..MaxSuspend :
          units = <<>> /\ Call(svc, request, need)
    \/ \E svc \in Dispatchers, request \in Requests, need \in 0..MaxSuspend :
          units = <<>> /\ FutureNew(svc, request, need)
    \/ \E i \in DOMAIN units, eng \in EngineResults :
          \E b \in BuildChoices(eng, AllBuildResults) : ServAdvance(i, eng, b)
    \/ \E i \in DOMAIN units, eng \in EngineResults :
          \E b \in BuildChoices(eng, AllBuildResults) : FutureAdvance(i, eng, b)

SpecMap == Init /\ [][NextMap]_vars

\* One FileServiceFuture driven by any caller: it may be advanced again after
\* its final result, and dropped at any point.
NextAgain ==
    \/ \E ctx \in Conns : makerFuts = <<>> /\ MakerCall(ctx)
    \/ \E i \in DOMAIN makerFuts : MakerPoll(i)
    \/ \E svc \in Dispatchers, request \in Requests, need \in 0..MaxSuspend :
          units = <<>> /\ FutureNew(svc, request, need)
    \/ \E i \in DOMAIN units, eng \in EngineResults :
          \E b \in BuildChoices(eng, AllBuildResults) : FutureAdvance(i, eng, b)
    \/ \E i \in DOMAIN units, eng \in EngineResults :
          \E b \in BuildChoices(eng, AllBuildResults) :
              FutureAdvanceAgain(i, eng, b)
    \/ \E i \in DOMAIN units : Cancel(i)

SpecAgain == Init /\ [][NextAgain]_vars

\* Two dispatches side by side that need not share anything.
NextTwo ==
    \/ \E r1, r2 \in Roots, q1, q2 \in Requests, n1, n2 \in 0..MaxSuspend,
          k1, k2 \in {"serv", "future"} : Two(r1, q1, n1, k1, r2, q2, n2, k2)
    \/ \E i \in DOMAIN units, eng \in EngineResults :
          \E b \in BuildChoices(eng, AllBuildResults) : ServAdvance(i, eng, b)
    \/ \E i \in DOMAIN units, eng \in EngineResults :
          \E b \in BuildChoices(eng, AllBuildResults) : FutureAdvance(i, eng, b)

SpecTwo == Init /\ [][NextTwo]_vars

\* One request dispatched through both adapters side by side.
NextPair ==
    \/ \E ctx \in Conns : makerFuts = <<>> /\ MakerCall(ctx)
    \/ \E i \in DOMAIN makerFuts : MakerPoll(i)
    \/ \E svc \in Dispatchers, request \in Requests, need \in 0..MaxSuspend :
          units = <<>> /\ Both(svc, request, need)
    \/ \E i \in DOMAIN units, eng \in EngineResults :
          \E b \in BuildChoices(eng, AllBuildResults) : ServAdvance(i, eng, b)
    \/ \E i \in DOMAIN units, eng \in EngineResults :
          \E b \in BuildChoices(eng, AllBuildResults) : FutureAdvance(i, eng, b)

SpecPair == Init /\ [][NextPair]_vars

(* ======================= claims ======================= *)

\* C1: a FileServiceFuture resumes the progress of its earlier advance
\* calls: when the resolution of its request suspends `need` times, the
\* unit has returned a final Response or Error once it has been advanced
\* more than `need` times.
C1_PollResumesProgress ==
    \A i \in DOMAIN units :
        (units[i].kind = "future" /\ units[i].polls > units[i].need)
            => IsFinal(units[i].ret)

\* C2: the future of serv and a FileServiceFuture given the same root path,
\* request and engine steps produce identical final results: once the serv
\* future has returned its result, a FileServiceFuture advanced at least as
\* often has returned a final result too, the same one whenever the engine
\* and the builder gave it the same values.
C2_AdaptersAgree ==
    \A i, j \in DOMAIN units :
        (/\ units[i].kind = "serv" /\ units[j].kind = "future"
         /\ units[i].local_root = units[j].local_root
         /\ units[i].request = units[j].request
         /\ units[i].need = units[j].need
         /\ units[i].state = "Returned"
         /\ units[j].polls >= units[i].polls)
            => /\ IsFinal(units[j].ret)
               /\ (units[j].resolved = units[i].resolved
                   /\ units[j].built = units[i].built)
                      => units[j].ret = units[i].ret

\* C3: in both adapters a non-Found outcome ends the dispatch with the one
\* status of the table (IsDirectory 403, MethodNotMatched 400, NotFound 404,
\* PermissionDenied 403) and an empty body.
C3_NonFoundStatus ==
    \A i \in DOMAIN units :
        LET u == units[i] IN
        (Len(u.resolved) = 1 /\ u.resolved[1].ok
            /\ u.resolved[1].val.tag \in NonFoundTags)
            => LET t == u.resolved[1].val.tag
                   st == CASE t = "IsDirectory" -> 403
                           [] t = "MethodNotMatched" -> 400
                           [] t = "NotFound" -> 404
                           [] t = "PermissionDenied" -> 403
               IN  u.ret = ReadyOk([status |-> st, body |-> "Empty"])

C3_Witness ==
    \E i \in DOMAIN units :
        /\ units[i].kind = "future"
        /\ units[i].resolved = <<ResolveOk([tag |-> "PermissionDenied"])>>
        /\ units[i].ret.tag = "Ok"

\* C4: when the outcome is Found and the builder fails, the dispatch ends
\* with an error of kind Other that carries the builder's message, never
\* with a response; in both adapters.
C4_BuildFailureWrapped ==
    \A i \in DOMAIN units :
        LET u == units[i] IN
        (Len(u.built) = 1 /\ ~u.built[1].ok)
            => u.ret = ReadyErr([kind |-> "Other", msg |-> u.built[1].cerr])

C4_Witness ==
    \E i \in DOMAIN units :
        /\ units[i].kind = "serv"
        /\ units[i].polls > 1
        /\ units[i].resolved = <<ResolveOk(Found("h2"))>>
        /\ units[i].built = <<BuildErr("invalid status code")>>
        /\ units[i].ret.tag = "Err"

\* C5: when the engine fails with an I/O error, both adapters end the
\* dispatch with that very error, the match never runs, the builder is not
\* called and no response is produced.
C5_EngineErrorUnchanged ==
    \A i \in DOMAIN units :
        LET u == units[i] IN
        (Len(u.resolved) = 1 /\ ~u.resolved[1].ok)
            => /\ u.ret = ReadyErr(u.resolved[1].err)
               /\ ~u.mapped
               /\ u.built = <<>>

C5_Witness ==
    \E i \in DOMAIN units :
        /\ units[i].kind = "future"
        /\ units[i].resolved =
              <<ResolveErr([kind |-> "NotFound", msg |-> "stat failed"])>>
        /\ units[i].ret.tag = "Err"

\* C6: when the outcome is Found(h) and the builder succeeds, the dispatch
\* result is the response the builder returned for h, status and body
\* unchanged.
C6_BuiltResponseUnchanged ==
    \A i \in DOMAIN units :
        LET u == units[i] IN
        (Len(u.built) = 1 /\ u.built[1].ok)
            => /\ u.ret = ReadyOk(u.built[1].resp)
               /\ u.resolved = <<ResolveOk(Found(u.built[1].resp.body))>>

C6_Witness ==
    \E i \in DOMAIN units :
        /\ units[i].kind = "serv"
        /\ units[i].resolved = <<ResolveOk(Found("h2"))>>
        /\ units[i].ret = ReadyOk([status |-> 206, body |-> "h2"])

\* C7: with several serv futures in flight, every one that has returned
\* holds the result its own resolution outcome determines, and a step on one
\* unit leaves the root path, the request and the result of every other unit
\* as they were.
C7_Matched ==
    \A i \in DOMAIN units :
        LET u == units[i] IN
        (u.kind = "serv" /\ u.state = "Returned")
            => /\ Len(u.resolved) = 1
               /\ u.ret =
                    IF ~u.resolved[1].ok THEN ReadyErr(u.resolved[1].err)
                    ELSE IF u.resolved[1].val.tag = "NotFound"
                    THEN ReadyOk([status |-> 404, body |-> "Empty"])
                    ELSE ReadyOk([status |-> 200,
                                  body |-> u.resolved[1].val.f])

C7_StepIsLocal ==
    /\ \A i \in DOMAIN units :
          /\ i \in DOMAIN units'
          /\ units'[i].local_root = units[i].local_root
          /\ units'[i].request = units[i].request
          /\ units[i].state = "Returned" => units'[i] = units[i]
    /\ \A i, j \in DOMAIN units :
          (i # j /\ units'[i] # units[i]) => units'[j] = units[j]

\* C7: both parts together, the matched results in every state and the
\* locality of every step
C7_NoInterference == []C7_Matched /\ [][C7_StepIsLocal]_vars

C7_Witness ==
    /\ Len(units) = 2
    /\ units[1].kind = "serv" /\ units[2].kind = "serv"
    /\ units[1].request # units[2].request
    /\ units[1].state = "Suspend0"
    /\ units[2].state = "Returned" /\ units[2].polls = 2
    /\ units[2].ret.tag = "Ok"

\* C8: whenever FileServiceFuture::poll has returned Pending, a wake-up of
\* the caller's executor is still arranged.
C8_WakeAfterPending ==
    \A i \in DOMAIN units :
        (units[i].kind = "future" /\ units[i].ret = Pending)
            => WakeArranged(units[i].attempt)

\* C9: the root path of the factory, of every future it returned, of every
\* Dispatcher and of every dispatch unit equals the root given to
\* FileServiceMaker::new.
C9_RootNeverChanges ==
    /\ maker.local_root = ctorRoot
    /\ \A k \in DOMAIN makerFuts :
          /\ makerFuts[k].local_root = ctorRoot
          /\ makerFuts[k].state = "Returned"
                => makerFuts[k].ret.svc.local_root = ctorRoot
    /\ \A svc \in Dispatchers : svc.local_root = ctorRoot
    /\ \A i \in DOMAIN units : units[i].local_root = ctorRoot

C9_Witness ==
    /\ Len(makerFuts) = MaxMakes
    /\ Len(units) = MaxUnits
    /\ units[1].state = "Returned"
    /\ units[2].state = "Suspend0"
    /\ units[2].local_root = "/var/www"

\* C10: the future of a factory call never returns Pending; its first
\* advance completes it with Ok(Dispatcher) whose root path is the factory's;
\* the factory is not changed.
C10_FutureDone ==
    \A k \in DOMAIN makerFuts :
        LET f == makerFuts[k] IN
        /\ f.ret.tag \in {"None", "Ok"}
        /\ f.ret.tag = "None" <=> f.state = "Unresumed"
        /\ f.ret.tag = "Ok" => f.ret.svc = [local_root |-> maker.local_root]

\* C10: the futures of the factory as above in every state, and no step
\* changes the factory
C10_FactoryAlwaysReady == []C10_FutureDone /\ [][maker' = maker]_vars

C10_Witness ==
    /\ Len(makerFuts) = MaxMakes
    /\ \A k \in DOMAIN makerFuts :
          makerFuts[k].ret = [tag |-> "Ok", svc |-> [local_root |-> "/srv"]]

\* C11: poll_ready of the Dispatcher and of the factory returns Ready(Ok)
\* in every reachable state, whatever is in flight and however earlier
\* dispatches ended, and a poll_ready step changes nothing else.
C11_ReadyValue == ready.ret \in {NotPolled, ReadyUnit}

C11_ReadyStepFrame ==
    ready' # ready => UNCHANGED <<maker, ctorRoot, makerFuts, units>>

\* C11: every readiness query answers Ready(Ok(())) and changes nothing else
C11_AlwaysReady == []C11_ReadyValue /\ [][C11_ReadyStepFrame]_vars

C11_Witness ==
    /\ ready = [of |-> "FileService", ret |-> ReadyUnit]
    /\ Len(units) = MaxUnits
    /\ units[1].state = "Returned" /\ units[1].ret.tag = "Err"
    /\ units[2].state = "Suspend0"

\* C12: for one dispatched request the Resolution Engine is started at most
\* once: no unit, whichever adapter, ever builds a second resolution attempt.
C12_ResolvedAtMostOnce ==
    \A i \in DOMAIN units : units[i].started <= 1

\* C13: an advance of a FileServiceFuture in which the resolution step
\* signals "not yet" returns Pending, runs neither the match nor the
\* builder; the unit holds a final result only after an advance in which the
\* resolution step yielded an outcome or an error.
C13_PendingPassedUp ==
    \A i \in DOMAIN units :
        LET u == units[i] IN
        (u.kind = "future" /\ u.polls > 0)
            => /\ Len(u.resolved) = 0
                    => (u.ret = Pending /\ ~u.mapped /\ u.built = <<>>
                        /\ u.builds = 0)
               /\ IsFinal(u.ret) => Len(u.resolved) = 1
               /\ u.ret = Pending \/ IsFinal(u.ret)

C13_Witness ==
    \E i \in DOMAIN units :
        /\ units[i].kind = "future"
        /\ units[i].need = 1
        /\ units[i].polls = 2
        /\ units[i].ret = Pending

\* C14: ResponseBuilder::build is called once for a dispatch whose
\* resolution yielded Found, and not at all while the resolution is pending,
\* when it failed or when it yielded IsDirectory, MethodNotMatched, NotFound
\* or PermissionDenied.
C14_BuildOnlyForFound ==
    \A i \in DOMAIN units :
        LET u == units[i]
            found == /\ Len(u.resolved) = 1
                     /\ u.resolved[1].ok
                     /\ u.resolved[1].val.tag = "Found"
        IN  /\ u.builds = IF found THEN 1 ELSE 0
            /\ Len(u.built) = u.builds

C14_Witness ==
    \E i \in DOMAIN units :
        /\ units[i].kind = "future"
        /\ units[i].resolved = <<ResolveOk(Found("h1"))>>
        /\ units[i].builds = 1
        /\ units[i].ret = ReadyOk([status |-> 200, body |-> "h1"])

\* C15: the result of mapping depends on the outcome only: two dispatches
\* that ended with the same non-Found outcome hold the same status and the
\* same empty body, whatever their methods, paths, root paths and adapters.
C15_OutcomeOnly ==
    \A i, j \in DOMAIN units :
        LET u == units[i]
            v == units[j]
        IN  (/\ Len(u.resolved) = 1 /\ u.resolved[1].ok
             /\ u.resolved[1].val.tag \in NonFoundTags
             /\ v.resolved = u.resolved)
                => /\ u.ret.tag = "Ok"
                   /\ v.ret = u.ret
                   /\ u.ret.resp.body = "Empty"

C15_Witness ==
    /\ Len(units) = 2
    /\ units[1].kind = "serv" /\ units[2].kind = "future"
    /\ units[1].request.method # units[2].request.method
    /\ units[1].request.path # units[2].request.path
    /\ units[1].local_root # units[2].local_root
    /\ units[1].resolved = <<ResolveOk([tag |-> "MethodNotMatched"])>>
    /\ units[2].resolved = units[1].resolved
    /\ units[2].ret = ReadyOk([status |-> 400, body |-> "Empty"])

\* C16: once an advance of a FileServiceFuture has returned, with Pending or
\* with a final result, the unit holds no resolution attempt, so dropping
\* the unit leaves none alive; a unit not yet advanced has none either.
C16_NoAttemptRetained ==
    \A i \in DOMAIN units :
        units[i].kind = "future"
            => /\ units[i].attempt = <<>>
               /\ units[i].polls = 0 => units[i].started = 0

C16_Witness ==
    \E i \in DOMAIN units :
        /\ units[i].kind = "future"
        /\ units[i].polls = 1
        /\ units[i].ret = Pending
        /\ units[i].attempt = <<>>

\* C17: an advance of a FileServiceFuture leaves its request and local_root
\* as they were and records nothing about being done: every advance, the
\* ones after a final result included, builds a new resolution attempt for
\* the same request and returns what a first advance of a new unit for that
\* request returns.
C17_AdvanceStep ==
    \A i \in DOMAIN units :
        (i \in DOMAIN units' /\ units'[i].polls = units[i].polls + 1)
            => LET u == units[i]
                   v == units'[i]
                   new == FileServiceFutureNew(u.local_root, u.request, u.need)
               IN  /\ v.local_root = u.local_root
                   /\ v.request = u.request
                   /\ v.state = u.state
                   /\ v.attempt = u.attempt
                   /\ v.started = u.started + 1
                   /\ \E eng \in EngineResults, b \in AllBuildResults :
                         LET w == FileServiceFuturePoll(new, eng, b)
                         IN  /\ v.ret = w.ret
                             /\ v.resolved = w.resolved
                             /\ v.built = w.built
                             /\ v.mapped = w.mapped

\* C17: every advance of a FileServiceFuture is a first advance
C17_NoDoneState == [][C17_AdvanceStep]_vars

C17_Witness ==
    \E i \in DOMAIN units :
        /\ units[i].kind = "future"
        /\ units[i].polls = 2
        /\ units[i].started = 2
        /\ units[i].resolved = <<ResolveOk([tag |-> "NotFound"])>>
        /\ units[i].ret = ReadyOk([status |-> 404, body |-> "Empty"])

====
